---- MODULE Spec2Model ----
(***************************************************************************)
(* node-gofile: a client of the gofile.io file-hosting service.            *)
(*                                                                         *)
(* The model follows src/src/index.js.  Every exported operation is an    *)
(* async function: it runs synchronously up to its first await (which is   *)
(* always an axios request), and resumes when the response arrives.  An    *)
(* action of the model is therefore one such run-to-the-next-await step.   *)
(* The remote service and the clock are the environment: every response    *)
(* and every reading of Date.now() is a nondeterministic choice.           *)
(*                                                                         *)
(* Numbers.  The expire option is compared with 10000000000 and with       *)
(* Date.now() (about 1.8e12), which do not fit TLC's 32-bit integers.  A   *)
(* number n is therefore held as the pair [q, r] with n = 1000 * q + r,    *)
(* 0 <= r < 1000; comparison is lexicographic and n / 1000 rounded to the  *)
(* nearest integer is q or q + 1.                                          *)
(***************************************************************************)
EXTENDS Integers, Sequences, FiniteSets, TLC

VARIABLES op, args, call, pc, server, now, fd, sent, brokerRes, workerRes,
          uploadInfo, reqs, arrived, logged, result

vars == <<op, args, call, pc, server, now, fd, sent, brokerRes, workerRes,
          uploadInfo, reqs, arrived, logged, result>>

----------------------------------------------------------------------------
(* Bounds of the model *)

\* Longest file manifest the service answers with, and longest file list
\* handed to uploadFiles.
MaxFiles == 3

\* Longest file manifest when two invocations are in progress at once.
MaxFilesEach == 1

(* Program constants *)

\* options.description.length <= 1000
DescriptionMax == 1000
\* /^[a-z0-9]{6,20}$/i
PasswordMin == 6
PasswordMax == 20
\* options.expire / 1000, Date.now() / 1000; also the base of the [q, r] pairs
Thousand == 1000
\* options.expire > 10000000000, as a multiple of Thousand
ExpireThresholdQ == 10000000

----------------------------------------------------------------------------
(* Values *)

\* Invocations of exported operations, in progress at once or one after
\* another.
Invocations == {"A", "B", "C", "D"}

Num(q, r) == [kind |-> "num", q |-> q, r |-> r]
\* A value for which isNaN is true, such as the string "soon".
NotANumber == [kind |-> "nan", q |-> 0, r |-> 0]
NoNum == [kind |-> "absent", q |-> 0, r |-> 0]

Gt(a, b) == a.q > b.q \/ (a.q = b.q /\ a.r > b.r)
Le(a, b) == ~Gt(a, b)

ExpireThreshold == Num(ExpireThresholdQ, 0)

\* A pair in normal form (0 <= r < 1000).
Normal(n) == Num(n.q + (n.r \div Thousand), n.r % Thousand)

\* Math.round(n / 1000): halves round up.
RoundDiv1000(n) == Normal(Num(0, IF 2 * n.r >= Thousand THEN n.q + 1 ELSE n.q))

\* Date.now(): a present-day clock (2026-11-05T00:00:00Z, in milliseconds) and
\* a clock that was never set (5,000,000 ms after the epoch).
Clocks == {Num(1793836800, 0), Num(5000, 0)}

\* The regular expression's class [a-z0-9] under the i flag: the letters and
\* the digits (those the passwords tried are made of; they also hold " ").
Alnum == {"a", "b", "c", "Z", "1", "2", "3"}

Repeat(c, n) == [k \in 1..n |-> c]

NoString == [present |-> FALSE, chars |-> <<>>]
Str(s) == [present |-> TRUE, chars |-> s]

Passwords ==
  { NoString,
    Str(<<>>),
    Str(<<"a", "b", "c", "1", "2", "3">>),
    Str(<<"a", "b", "1">>),
    Str(<<"a", "b", "c", " ", "1", "2", "3">>),
    Str(<<"a", "b", "Z", "1", "2", "3">>),
    Str(Repeat("a", PasswordMax)),
    Str(Repeat("a", PasswordMax + 1)) }

\* A description is held by its length alone: the code reads nothing else.
NoText == [present |-> FALSE, len |-> 0]
Text(n) == [present |-> TRUE, len |-> n]
Descriptions == {NoText, Text(0), Text(1), Text(DescriptionMax), Text(DescriptionMax + 1)}

Expires ==
  { NoNum, NotANumber, Num(0, 0),
    \* milliseconds around the present-day clock: one hour ahead, now, 1 ms ago
    Num(1793840400, 0), Num(1793836800, 0), Num(1793836799, 999),
    \* seconds around the present-day clock: one hour ahead, now, 1 s ago
    Num(1793840, 400), Num(1793836, 800), Num(1793836, 799),
    \* around the threshold
    Num(ExpireThresholdQ, 0), Num(ExpireThresholdQ, 1),
    \* around the unset clock
    Num(5000, 1), Num(5400, 500), Num(4999, 999) }

Options == [description : Descriptions, password : Passwords, expire : Expires]
NoOptions == [description |-> NoText, password |-> NoString, expire |-> NoNum]

\* options = {} when the argument is undefined
FewOptions ==
  { NoOptions,
    [NoOptions EXCEPT !.description = Text(DescriptionMax + 1)],
    [NoOptions EXCEPT !.password = Str(<<"a", "b", "c", "1", "2", "3">>)] }

\* File names; NoName is a missing fn property (undefined).
NoName == "(undefined)"
FileUpload(file, fn) == [file |-> file, fn |-> fn]

\* File lists handed to uploadFiles.
FileLists ==
  { <<>>,
    <<FileUpload("Readable", NoName)>>,
    <<FileUpload("Buffer", "")>>,
    <<FileUpload("Buffer", "a.txt")>>,
    <<FileUpload("Buffer", "a.txt"), FileUpload("Readable", "b.txt")>> }

Range(s) == {s[k] : k \in DOMAIN s}

\* UploadInfo.files is an object: its keys in enumeration order, and the
\* entry under each key.  The keys the service uses, in no particular order.
FileKeys == {"k1", "k2", "k3", "k4"}
FileEntry(k) == [name |-> k, link |-> k]

RECURSIVE KeyOrders(_)
KeyOrders(n) ==
  IF n = 0 THEN {<<>>}
  ELSE LET shorter == KeyOrders(n - 1)
       IN shorter \cup {Append(s, k) : s \in {t \in shorter : Len(t) = n - 1},
                                       k \in FileKeys}

Manifests == {ks \in KeyOrders(MaxFiles) : Cardinality(Range(ks)) = Len(ks)}

Codes == {"c1", "c2"}
RemovalCodes == {"r1"}
Passphrases == {"", "secret"}
Servers == {"srv1", "srv2"}
Undefined == "undefined"

\* A missing query parameter.
NoParam == "(none)"

----------------------------------------------------------------------------
(* Pure parts of the code *)

\* sha256hash(str): the hex digest, held as a value that names its input and
\* is not that input.
sha256hash(str) == [kind |-> "sha256", of |-> str]
NoDigest == [kind |-> "none", of |-> ""]

\* A request handed to axios.  host is the part of the URL before .gofile.io;
\* c, rc and p are the query parameters, link the URL of a file GET, form the
\* multipart body.
Request(kind, host, c, rc, p, link, form) ==
  [kind |-> kind, host |-> host, c |-> c, rc |-> rc, p |-> p, link |-> link, form |-> form,
   responseType |-> "json"]

\* getServer's request: ?c=code only when code is given (and not empty).
GetServerRequest(code) ==
  Request("getServer", "apiv2", IF code = "" THEN NoParam ELSE code, NoParam, NoDigest, "", <<>>)

UploadRequest(host, form) == Request("upload", host, NoParam, NoParam, NoDigest, "", form)

DeleteUploadRequest(host, code, removalCode) ==
  Request("deleteUpload", host, code, removalCode, NoDigest, "", <<>>)

\* A query parameter sent as it is.
Plain(str) == [kind |-> "plain", of |-> str]

\* getUploadInfo's request as it would be if the passphrase were sent as it is.
GetUploadRequestPlain(host, code, p) ==
  Request("getUpload", host, code, NoParam, IF p # "" THEN Plain(p) ELSE NoDigest, "", <<>>)

\* getUploadInfo's request: &p=sha256hash(p) only when p is not empty.
GetUploadRequest(host, code, p) ==
  Request("getUpload", host, code, NoParam, IF p # "" THEN sha256hash(p) ELSE NoDigest, "", <<>>)

FileRequest(link, responseType) ==
  [Request("file", "", NoParam, NoParam, NoDigest, link, <<>>) EXCEPT !.responseType = responseType]

WorkerKinds == {"upload", "deleteUpload", "getUpload", "file"}

\* Fields of the multipart form, in the order of fd.append.
Field(name, value) == [name |-> name, value |-> value]

FileField(f) ==
  Field("filesUploaded",
        [kind |-> "file", file |-> f.file, filename |-> IF f.fn = "" THEN NoName ELSE f.fn])

\* /^[a-z0-9]{6,20}$/i.test(password)
PasswordTest(chars) ==
  /\ Len(chars) >= PasswordMin
  /\ Len(chars) <= PasswordMax
  /\ \A k \in DOMAIN chars : chars[k] \in Alnum

\* if (options.expire): 0 and a missing value are falsy.
ExpireTruthy(e) == e.kind = "nan" \/ (e.kind = "num" /\ (e.q # 0 \/ e.r # 0))

\* options.expire > 10000000000 (false when the value is not a number)
AboveThreshold(e) == e.kind = "num" /\ Gt(e, ExpireThreshold)

\* !isNaN(e) && e > 10000000000 ? e : e / 1000 > Date.now() / 1000
\* The conditional's test is the whole conjunction, so a value above the
\* threshold is itself the condition (and is truthy), and only the other
\* values are compared with the clock.
ExpireCondition(e, clock) ==
  IF AboveThreshold(e) THEN ExpireTruthy(e) ELSE e.kind = "num" /\ Gt(e, clock)

\* Math.round(e > 10000000000 ? e : e / 1000)
ExpireValue(e) == IF AboveThreshold(e) THEN e ELSE RoundDiv1000(e)

Throws(s) == s.error # ""

AppendDescription(s, o) ==
  IF Throws(s) \/ ~(o.description.present /\ o.description.len > 0) THEN s
  ELSE IF o.description.len <= DescriptionMax
       THEN [s EXCEPT !.fields = Append(@, Field("description", [kind |-> "text", len |-> o.description.len]))]
       ELSE [s EXCEPT !.error = "Invalid value for field description. "]

AppendPassword(s, o) ==
  IF Throws(s) \/ ~(o.password.present /\ o.password.chars # <<>>) THEN s
  ELSE IF PasswordTest(o.password.chars)
       THEN [s EXCEPT !.fields = Append(@, Field("password", [kind |-> "chars", chars |-> o.password.chars]))]
       ELSE [s EXCEPT !.error = "Invalid value for field password. "]

AppendExpire(s, o, clock) ==
  IF Throws(s) \/ ~ExpireTruthy(o.expire) THEN s
  ELSE IF ExpireCondition(o.expire, clock)
       THEN [s EXCEPT !.fields = Append(@, Field("expire", ExpireValue(o.expire)))]
       ELSE [s EXCEPT !.error = "Invalid value for field expire. "]

\* uploadFiles from new FormData() to the request: the form built, and the
\* error thrown on the way if any (the fields appended before it stay).
\* clock is Date.now() at that time.
BuildForm(files, options, clock) ==
  LET start == [fields |-> [k \in 1..Len(files) |-> FileField(files[k])]
                             \o <<Field("category", [kind |-> "string", s |-> "file"])>>,
                error |-> ""]
  IN AppendExpire(AppendPassword(AppendDescription(start, options), options), options, clock)

\* Arguments of uploadFile: a name, an options object or nothing.
NoArg == [kind |-> "undefined", str |-> "", opts |-> NoOptions]
StringArg(s) == [kind |-> "string", str |-> s, opts |-> NoOptions]
ObjectArg(o) == [kind |-> "object", str |-> "", opts |-> o]

\* arg2 && arg2 !== "" && typeof arg2 !== "object"
IsName(arg) == arg.kind = "string" /\ arg.str # ""

\* options = {} for an undefined argument; a string has none of the fields.
AsOptions(arg) == IF arg.kind = "object" THEN arg.opts ELSE NoOptions

Delegate(files, options) == [throws |-> FALSE, error |-> "", files |-> files, options |-> options]
Throw(message) == [throws |-> TRUE, error |-> message, files |-> <<>>, options |-> NoOptions]

\* uploadFile as it would be if a Buffer were treated as a stream is: the
\* name is left out when it is blank.
uploadFileNameOptional(arg1, arg2, arg3) ==
  IF arg1 \in {"Buffer", "Readable"}
  THEN IF IsName(arg2)
       THEN Delegate(<<FileUpload(arg1, arg2.str)>>, AsOptions(arg3))
       ELSE Delegate(<<FileUpload(arg1, NoName)>>, AsOptions(arg2))
  ELSE Throw("Invalid file type")

\* uploadFile: the error it throws, or the call of uploadFiles it returns.
uploadFile(arg1, arg2, arg3) ==
  IF arg1 = "Buffer"
  THEN IF IsName(arg2)
       THEN Delegate(<<FileUpload(arg1, arg2.str)>>, AsOptions(arg3))
       ELSE Throw("Filename must not be blank when using a Buffer.")
  ELSE IF arg1 = "Readable"
       THEN IF IsName(arg2)
            THEN Delegate(<<FileUpload(arg1, arg2.str)>>, AsOptions(arg3))
            ELSE Delegate(<<FileUpload(arg1, NoName)>>, AsOptions(arg2))
       ELSE Throw("Invalid file type")

----------------------------------------------------------------------------
(* Responses and outcomes *)

NoResponse == [outcome |-> "none"]

\* The broker answers with a server, with a status other than "ok", or the
\* request fails (axios rejects).
BrokerResponses ==
  {[outcome |-> "ok", server |-> s] : s \in Servers}
  \cup {[outcome |-> "status", server |-> ""], [outcome |-> "neterr", server |-> ""]}

Failure == {[outcome |-> "status"], [outcome |-> "neterr"]}

\* res.data.data of each worker endpoint when the status is "ok".
UploadResponses ==
  {[outcome |-> "ok", data |-> [kind |-> "created", code |-> c, removalCode |-> rc]] :
     c \in Codes, rc \in RemovalCodes} \cup Failure

DeleteResponses == {[outcome |-> "ok", data |-> [kind |-> "removed"]]} \cup Failure

GetUploadResponses(code) ==
  {[outcome |-> "ok", data |-> [kind |-> "info", code |-> code, keys |-> ks]] : ks \in Manifests}
  \cup Failure

\* The answer to a file GET: the content behind the link, or a failure (a
\* status axios rejects, or no answer).
FileResponses(link) == {[outcome |-> "ok", data |-> link], [outcome |-> "fail", data |-> ""]}

\* The state of a promise and the value it settled with.
Pending == [state |-> "pending", value |-> [kind |-> "none"]]
Fulfilled(value) == [state |-> "fulfilled", value |-> value]
Rejected(message) == [state |-> "rejected", value |-> [kind |-> "error", message |-> message]]

UndefinedValue == [kind |-> "undefined"]
DataValue(d) == [kind |-> "data", data |-> d]
ArrayValue(items) == [kind |-> "array", items |-> items]

\* The error an await of a request throws, or "" when the response is fine:
\* axios rejects, or the code throws on res.data.status !== "ok".
ErrorOf(res, what) ==
  IF res.outcome = "neterr" THEN "Request failed"
  ELSE IF res.outcome = "status" THEN what
  ELSE ""

\* getServer as it would be if it fell back to a fixed server.
getServerDefault(res) == "srv1"

\* getServer: res.data.data.server, or undefined once the error is logged.
getServer(res) == IF res.outcome = "ok" THEN res.server ELSE Undefined

\* Object.keys(uploadInfo.files).map(k => uploadInfo.files[k])
Files(info) == [j \in 1..Len(info.keys) |-> FileEntry(info.keys[j])]

\* A request of downloadFiles' reqs: in flight, or settled with its response.
InFlight == [state |-> "pending", data |-> ""]
Settled(res) == [state |-> IF res.outcome = "ok" THEN "fulfilled" ELSE "rejected", data |-> res.data]

\* Promise.all as it would be if it collected the data as the requests settle.
PromiseAllByArrival(slots, order) ==
  IF \E j \in DOMAIN slots : slots[j].state = "rejected" THEN Rejected("Request failed")
  ELSE IF \A j \in DOMAIN slots : slots[j].state = "fulfilled"
       THEN Fulfilled(ArrayValue([j \in DOMAIN slots |-> slots[order[j]].data]))
       ELSE Pending

\* Promise.all(reqs) followed by .map(r => r.data), after a request settled:
\* rejected as soon as one request is, fulfilled with the data in the order
\* of reqs once all are, pending otherwise.  order is the order in which the
\* requests settled.
PromiseAll(slots, order) ==
  IF \E j \in DOMAIN slots : slots[j].state = "rejected" THEN Rejected("Request failed")
  ELSE IF \A j \in DOMAIN slots : slots[j].state = "fulfilled"
       THEN Fulfilled(ArrayValue([j \in DOMAIN slots |-> slots[j].data]))
       ELSE Pending

----------------------------------------------------------------------------
(* The state *)

TypeOK ==
  /\ op \in [Invocations -> {"idle", "uploadFile", "uploadFiles", "removeUpload",
                             "getUploadInfo", "downloadFiles"}]
  /\ pc \in [Invocations -> {"idle", "getServer", "upload", "deleteUpload", "getUpload",
                             "all", "done"}]
  /\ server \in [Invocations -> Servers \cup {Undefined, ""}]
  /\ \A i \in Invocations :
       /\ result[i].state \in {"pending", "fulfilled", "rejected"}
       /\ Len(arrived[i]) <= Len(reqs[i])

NoCall == [files |-> <<>>, options |-> NoOptions, code |-> "", removalCode |-> "", p |-> ""]
NoInfo == [kind |-> "none"]

Init ==
  /\ op = [i \in Invocations |-> "idle"]
  /\ args = [i \in Invocations |-> [none |-> TRUE]]
  /\ call = [i \in Invocations |-> NoCall]
  /\ pc = [i \in Invocations |-> "idle"]
  /\ server = [i \in Invocations |-> ""]
  /\ now = [i \in Invocations |-> NoNum]
  /\ fd = [i \in Invocations |-> <<>>]
  /\ sent = [i \in Invocations |-> <<>>]
  /\ brokerRes = [i \in Invocations |-> NoResponse]
  /\ workerRes = [i \in Invocations |-> NoResponse]
  /\ uploadInfo = [i \in Invocations |-> NoInfo]
  /\ reqs = [i \in Invocations |-> <<>>]
  /\ arrived = [i \in Invocations |-> <<>>]
  /\ logged = [i \in Invocations |-> <<>>]
  /\ result = [i \in Invocations |-> Pending]

----------------------------------------------------------------------------
(* The operations.  i is the invocation that takes the step. *)

Log(i, errors) == [logged EXCEPT ![i] = @ \o SelectSeq(errors, LAMBDA e : e # "")]

\* The synchronous start of uploadFiles, removeUpload and getUploadInfo:
\* getServer(code) is called and issues the broker request.
Begin(i, o, a, c, code) ==
  /\ pc[i] = "idle"
  /\ op' = [op EXCEPT ![i] = o]
  /\ args' = [args EXCEPT ![i] = a]
  /\ call' = [call EXCEPT ![i] = c]
  /\ sent' = [sent EXCEPT ![i] = Append(@, GetServerRequest(code))]
  /\ pc' = [pc EXCEPT ![i] = "getServer"]
  /\ UNCHANGED <<server, now, fd, brokerRes, workerRes, uploadInfo, reqs, arrived, logged, result>>

\* uploadFiles(files, options)
UploadFilesCalled(i, files, options) ==
  Begin(i, "uploadFiles", [files |-> files, options |-> options],
        [NoCall EXCEPT !.files = files, !.options = options], "")

CallUploadFiles(i) ==
  /\ pc[i] = "idle"
  /\ \E files \in FileLists, options \in Options : UploadFilesCalled(i, files, options)

\* uploadFile(arg1, arg2, arg3): throws, or returns uploadFiles(...)
CallUploadFile(i) ==
  /\ pc[i] = "idle"
  /\ \E arg1 \in {"Buffer", "Readable", "Other"},
     arg2 \in {NoArg, StringArg(""), StringArg("a.txt")} \cup {ObjectArg(o) : o \in FewOptions},
     arg3 \in {NoArg} \cup {ObjectArg(o) : o \in FewOptions} :
    LET u == uploadFile(arg1, arg2, arg3)
        a == [arg1 |-> arg1, arg2 |-> arg2, arg3 |-> arg3]
    IN IF u.throws
       THEN /\ pc[i] = "idle"
            /\ op' = [op EXCEPT ![i] = "uploadFile"]
            /\ args' = [args EXCEPT ![i] = a]
            /\ result' = [result EXCEPT ![i] = Rejected(u.error)]
            /\ pc' = [pc EXCEPT ![i] = "done"]
            /\ UNCHANGED <<call, server, now, fd, sent, brokerRes, workerRes, uploadInfo,
                           reqs, arrived, logged>>
       ELSE Begin(i, "uploadFile", a,
                  [NoCall EXCEPT !.files = u.files, !.options = u.options], "")

\* removeUpload(code, removalCode)
CallRemoveUpload(i) ==
  /\ pc[i] = "idle"
  /\ \E code \in Codes, removalCode \in RemovalCodes :
    Begin(i, "removeUpload", [code |-> code, removalCode |-> removalCode],
          [NoCall EXCEPT !.code = code, !.removalCode = removalCode], code)

\* getUploadInfo(code, p)
CallGetUploadInfo(i) ==
  /\ pc[i] = "idle"
  /\ \E code \in Codes, p \in Passphrases :
    Begin(i, "getUploadInfo", [code |-> code, p |-> p],
          [NoCall EXCEPT !.code = code, !.p = p], code)

\* downloadFiles(code, p, responseType), which starts with getUploadInfo(code, p)
CallDownloadFiles(i) ==
  /\ pc[i] = "idle"
  /\ \E code \in Codes, p \in Passphrases, responseType \in {"arraybuffer", "stream"} :
    Begin(i, "downloadFiles", [code |-> code, p |-> p, responseType |-> responseType],
          [NoCall EXCEPT !.code = code, !.p = p], code)

\* The broker's response reaches getServer, which returns the server (or logs
\* the error and returns undefined) to uploadFiles; uploadFiles builds and
\* validates the form, and posts it or logs the error it threw.  now is the
\* time at which it does.
UploadFilesAfterGetServer(i) ==
  /\ pc[i] = "getServer"
  /\ op[i] \in {"uploadFile", "uploadFiles"}
  /\ \E res \in BrokerResponses, clock \in Clocks :
       LET host == getServer(res)
           form == BuildForm(call[i].files, call[i].options, clock)
       IN /\ brokerRes' = [brokerRes EXCEPT ![i] = res]
          /\ server' = [server EXCEPT ![i] = host]
          /\ fd' = [fd EXCEPT ![i] = form.fields]
          /\ now' = [now EXCEPT ![i] = clock]
          /\ logged' = Log(i, <<ErrorOf(res, "Fetching server info failed"), form.error>>)
          /\ IF Throws(form)
             THEN /\ result' = [result EXCEPT ![i] = Fulfilled(UndefinedValue)]
                  /\ pc' = [pc EXCEPT ![i] = "done"]
                  /\ UNCHANGED sent
             ELSE /\ sent' = [sent EXCEPT ![i] = Append(@, UploadRequest(host, form.fields))]
                  /\ pc' = [pc EXCEPT ![i] = "upload"]
                  /\ UNCHANGED result
  /\ UNCHANGED <<op, args, call, workerRes, uploadInfo, reqs, arrived>>

\* removeUpload after getServer: the deleteUpload request.
RemoveUploadAfterGetServer(i) ==
  /\ pc[i] = "getServer"
  /\ op[i] = "removeUpload"
  /\ \E res \in BrokerResponses :
       /\ brokerRes' = [brokerRes EXCEPT ![i] = res]
       /\ server' = [server EXCEPT ![i] = getServer(res)]
       /\ logged' = Log(i, <<ErrorOf(res, "Fetching server info failed")>>)
       /\ sent' = [sent EXCEPT ![i] =
                     Append(@, DeleteUploadRequest(getServer(res), call[i].code, call[i].removalCode))]
  /\ pc' = [pc EXCEPT ![i] = "deleteUpload"]
  /\ UNCHANGED <<op, args, call, now, fd, workerRes, uploadInfo, reqs, arrived, result>>

\* getUploadInfo after getServer: the getUpload request.
GetUploadInfoAfterGetServer(i) ==
  /\ pc[i] = "getServer"
  /\ op[i] \in {"getUploadInfo", "downloadFiles"}
  /\ \E res \in BrokerResponses :
       /\ brokerRes' = [brokerRes EXCEPT ![i] = res]
       /\ server' = [server EXCEPT ![i] = getServer(res)]
       /\ logged' = Log(i, <<ErrorOf(res, "Fetching server info failed")>>)
       /\ sent' = [sent EXCEPT ![i] =
                     Append(@, GetUploadRequest(getServer(res), call[i].code, call[i].p))]
  /\ pc' = [pc EXCEPT ![i] = "getUpload"]
  /\ UNCHANGED <<op, args, call, now, fd, workerRes, uploadInfo, reqs, arrived, result>>

\* What they would return if the status of the response were not looked at:
\* the data of the response, whatever it is.
ReturnedUnchecked(res) ==
  DataValue(IF res.outcome = "ok" THEN res.data ELSE [kind |-> "error"])

\* What uploadFiles, removeUpload and getUploadInfo return after their worker
\* request: res.data.data, or undefined once the error is logged.
Returned(res) == IF res.outcome = "ok" THEN DataValue(res.data) ELSE UndefinedValue

\* The upload's response reaches uploadFiles.
UploadFilesAfterUpload(i) ==
  /\ pc[i] = "upload"
  /\ \E res \in UploadResponses :
       /\ workerRes' = [workerRes EXCEPT ![i] = res]
       /\ logged' = Log(i, <<ErrorOf(res, "Uploading file failed")>>)
       /\ result' = [result EXCEPT ![i] = Fulfilled(Returned(res))]
  /\ pc' = [pc EXCEPT ![i] = "done"]
  /\ UNCHANGED <<op, args, call, server, now, fd, sent, brokerRes, uploadInfo, reqs, arrived>>

\* The deleteUpload response reaches removeUpload.
RemoveUploadAfterDeleteUpload(i) ==
  /\ pc[i] = "deleteUpload"
  /\ \E res \in DeleteResponses :
       /\ workerRes' = [workerRes EXCEPT ![i] = res]
       /\ logged' = Log(i, <<ErrorOf(res, "Removing file failed")>>)
       /\ result' = [result EXCEPT ![i] = Fulfilled(Returned(res))]
  /\ pc' = [pc EXCEPT ![i] = "done"]
  /\ UNCHANGED <<op, args, call, server, now, fd, sent, brokerRes, uploadInfo, reqs, arrived>>

\* The getUpload response reaches getUploadInfo, which returns the upload's
\* information or undefined.  Called by downloadFiles, its return value is
\* uploadInfo: reading uploadInfo.files throws when it is undefined; otherwise
\* one GET per file is issued, all at once, and Promise.all awaits them.
GetUploadInfoAfterGetUpload(i) ==
  /\ pc[i] = "getUpload"
  /\ \E res \in GetUploadResponses(call[i].code) :
       LET err == ErrorOf(res, "Fetching file info failed")
           files == Files(res.data)
           slots == [j \in DOMAIN files |-> InFlight]
       IN /\ workerRes' = [workerRes EXCEPT ![i] = res]
          /\ IF op[i] = "getUploadInfo"
             THEN /\ logged' = Log(i, <<err>>)
                  /\ result' = [result EXCEPT ![i] = Fulfilled(Returned(res))]
                  /\ pc' = [pc EXCEPT ![i] = "done"]
                  /\ UNCHANGED <<sent, uploadInfo, reqs>>
             ELSE /\ uploadInfo' = [uploadInfo EXCEPT ![i] = Returned(res)]
                  /\ IF res.outcome # "ok"
                     THEN /\ logged' = Log(i, <<err, "Cannot read property 'files' of undefined">>)
                          /\ result' = [result EXCEPT ![i] = Fulfilled(UndefinedValue)]
                          /\ pc' = [pc EXCEPT ![i] = "done"]
                          /\ UNCHANGED <<sent, reqs>>
                     ELSE /\ sent' = [sent EXCEPT ![i] =
                                        @ \o [j \in DOMAIN files |->
                                                FileRequest(files[j].link, args[i].responseType)]]
                          /\ reqs' = [reqs EXCEPT ![i] = slots]
                          /\ result' = [result EXCEPT ![i] = PromiseAll(slots, <<>>)]
                          /\ pc' = [pc EXCEPT ![i] = IF slots = <<>> THEN "done" ELSE "all"]
                          /\ UNCHANGED logged
  /\ UNCHANGED <<op, args, call, server, now, fd, brokerRes, arrived>>

\* The response to one of downloadFiles' GETs.  While Promise.all is awaited
\* it settles with the response that rejects it or completes it; a rejection
\* is caught and logged and downloadFiles returns undefined.  A response that
\* arrives after downloadFiles returned settles its request and nothing else.
DownloadFilesAfterFile(i) ==
  /\ \E j \in DOMAIN reqs[i] :
       /\ reqs[i][j].state = "pending"
       /\ \E res \in FileResponses(Files(uploadInfo[i].data)[j].link) :
            LET slots == [reqs[i] EXCEPT ![j] = Settled(res)]
                order == Append(arrived[i], j)
                all == PromiseAll(slots, order)
            IN /\ reqs' = [reqs EXCEPT ![i] = slots]
               /\ arrived' = [arrived EXCEPT ![i] = order]
               /\ IF pc[i] = "all" /\ all.state = "fulfilled"
                  THEN /\ result' = [result EXCEPT ![i] = all]
                       /\ pc' = [pc EXCEPT ![i] = "done"]
                       /\ UNCHANGED logged
                  ELSE IF pc[i] = "all" /\ all.state = "rejected"
                  THEN /\ result' = [result EXCEPT ![i] = Fulfilled(UndefinedValue)]
                       /\ pc' = [pc EXCEPT ![i] = "done"]
                       /\ logged' = Log(i, <<all.value.message>>)
                  ELSE UNCHANGED <<result, pc, logged>>
  /\ UNCHANGED <<op, args, call, server, now, fd, sent, brokerRes, workerRes, uploadInfo>>

Step(i) ==
  \/ CallUploadFiles(i)
  \/ CallUploadFile(i)
  \/ CallRemoveUpload(i)
  \/ CallGetUploadInfo(i)
  \/ CallDownloadFiles(i)
  \/ UploadFilesAfterGetServer(i)
  \/ RemoveUploadAfterGetServer(i)
  \/ GetUploadInfoAfterGetServer(i)
  \/ UploadFilesAfterUpload(i)
  \/ RemoveUploadAfterDeleteUpload(i)
  \/ GetUploadInfoAfterGetUpload(i)
  \/ DownloadFilesAfterFile(i)

\* One invocation, with every argument and every answer of the service.
Next == Step("A")

Spec == Init /\ [][Next]_vars

\* Two invocations in progress at once.  Node runs one step at a time and a
\* step ends at an await, so any invocation that has a step to take may take
\* the next one.  The arguments and the answers are kept few: one file to
\* upload and no options, no passphrase, manifests of at most MaxFilesEach
\* files, the present-day clock.
FewInputs(i) ==
  /\ op[i] = "uploadFile" =>
       /\ args[i].arg1 = "Buffer"
       /\ args[i].arg2 \in {NoArg, StringArg("a.txt")}
       /\ args[i].arg3 = NoArg
  /\ op[i] \in {"getUploadInfo", "downloadFiles"} => args[i].p = ""
  /\ op[i] = "downloadFiles" => args[i].responseType = "arraybuffer"
  /\ now[i] \in {NoNum, Num(1793836800, 0)}
  /\ IF workerRes[i].outcome = "ok" /\ workerRes[i].data.kind = "info"
     THEN /\ Len(workerRes[i].data.keys) <= MaxFilesEach
          /\ Range(workerRes[i].data.keys) \subseteq {"k1", "k2"}
     ELSE TRUE

NextConcurrent ==
  \E i \in {"A", "B"} :
    \/ UploadFilesCalled(i, <<FileUpload("Readable", NoName)>>, NoOptions)
    \/ CallUploadFile(i) /\ FewInputs(i)'
    \/ CallRemoveUpload(i)
    \/ CallGetUploadInfo(i) /\ FewInputs(i)'
    \/ CallDownloadFiles(i) /\ FewInputs(i)'
    \/ UploadFilesAfterGetServer(i) /\ FewInputs(i)'
    \/ RemoveUploadAfterGetServer(i)
    \/ GetUploadInfoAfterGetServer(i)
    \/ UploadFilesAfterUpload(i)
    \/ RemoveUploadAfterDeleteUpload(i)
    \/ GetUploadInfoAfterGetUpload(i) /\ FewInputs(i)'
    \/ DownloadFilesAfterFile(i)

SpecConcurrent == Init /\ [][NextConcurrent]_vars

----------------------------------------------------------------------------
(* A service that stores uploads *)

\* The service holds an upload from its answer to the upload request that
\* created it to its answer to the deleteUpload request that removed it, and
\* answers a status other than "ok" for a code it does not hold.  What it
\* holds is told by the answers it has given so far.
Creators(code) ==
  {i \in Invocations : /\ op[i] = "uploadFiles"
                       /\ workerRes[i].outcome = "ok"
                       /\ workerRes[i].data.code = code}
Removed(code) ==
  \E i \in Invocations :
    op[i] = "removeUpload" /\ workerRes[i].outcome = "ok" /\ call[i].code = code
Stored(code) == Creators(code) # {} /\ ~Removed(code)
Creator(code) == CHOOSE i \in Creators(code) : TRUE

\* The files of an upload, under the keys the service gives them.
StoredKeys(code) ==
  [k \in 1..Len(call[Creator(code)].files) |-> <<"k1", "k2", "k3", "k4">>[k]]

\* The answer to an upload: a code not given before, or a status other than
\* "ok" when there is none left.
ServiceUpload ==
  LET free == {c \in Codes : Creators(c) = {}}
  IN IF free = {} THEN {[outcome |-> "status"]}
     ELSE {[outcome |-> "ok", data |-> [kind |-> "created", code |-> c, removalCode |-> rc]] :
             c \in free, rc \in RemovalCodes}

ServiceGetUpload(code) ==
  IF Stored(code)
  THEN [outcome |-> "ok", data |-> [kind |-> "info", code |-> code, keys |-> StoredKeys(code)]]
  ELSE [outcome |-> "status"]

ServiceDeleteUpload(code, removalCode) ==
  IF Stored(code) /\ removalCode = workerRes[Creator(code)].data.removalCode
  THEN [outcome |-> "ok", data |-> [kind |-> "removed"]]
  ELSE [outcome |-> "status"]

\* The order in which a caller that awaits each call makes its calls.
CallOrder == <<"A", "B", "C", "D">>
InTurn(i) ==
  \E n \in DOMAIN CallOrder :
    /\ CallOrder[n] = i
    /\ \A m \in 1..(n - 1) : pc[CallOrder[m]] = "done"

\* The broker names a server, at the present-day clock.
ServiceBroker(i) == brokerRes[i].outcome = "ok" /\ now[i] \in {NoNum, Num(1793836800, 0)}

\* uploadFiles, getUploadInfo and removeUpload called one after another
\* against that service.
NextService ==
  \E i \in Invocations :
    \/ /\ InTurn(i)
       /\ \E files \in {<<FileUpload("Readable", NoName)>>,
                          <<FileUpload("Buffer", "a.txt"), FileUpload("Readable", "b.txt")>>} :
            UploadFilesCalled(i, files, NoOptions)
    \/ InTurn(i) /\ CallRemoveUpload(i)
    \/ InTurn(i) /\ CallGetUploadInfo(i) /\ FewInputs(i)'
    \/ UploadFilesAfterGetServer(i) /\ ServiceBroker(i)'
    \/ RemoveUploadAfterGetServer(i) /\ ServiceBroker(i)'
    \/ GetUploadInfoAfterGetServer(i) /\ ServiceBroker(i)'
    \/ UploadFilesAfterUpload(i) /\ workerRes'[i] \in ServiceUpload
    \/ RemoveUploadAfterDeleteUpload(i)
         /\ workerRes'[i] = ServiceDeleteUpload(call[i].code, call[i].removalCode)
    \/ GetUploadInfoAfterGetUpload(i) /\ workerRes'[i] = ServiceGetUpload(call[i].code)

SpecService == Init /\ [][NextService]_vars

----------------------------------------------------------------------------
(* Properties *)

Count(i, kind) == Len(SelectSeq(sent[i], LAMBDA r : r.kind = kind))
WorkerRequestsOf(i) == SelectSeq(sent[i], LAMBDA r : r.kind \in WorkerKinds)
BrokerFailed(i) == brokerRes[i].outcome \in {"status", "neterr"}
BrokerOk(i) == brokerRes[i].outcome = "ok"
WorkerFailed(i) == workerRes[i].outcome \in {"status", "neterr"}
FileFailed(i) == \E j \in DOMAIN reqs[i] : reqs[i][j].state = "rejected"
HasReturned(i) == result[i].state # "pending"
\* An invocation with nothing amiss in its arguments: an upload has files and
\* no options.
PlainCall(i) ==
  op[i] \in {"uploadFile", "uploadFiles"} => call[i].files # <<>> /\ call[i].options = NoOptions
ReturnedArray(i) == result[i].state = "fulfilled" /\ result[i].value.kind = "array"

\* C1: a downloadFiles call that succeeds returns an array with one element
\* per entry of the manifest, the j-th being the content fetched from the link
\* of the j-th entry in the order of the manifest's keys, whatever the order in
\* which the responses arrived; and it succeeds once every GET has.
C1_DownloadOrder ==
  \A i \in Invocations :
    op[i] = "downloadFiles" /\ uploadInfo[i].kind = "data" =>
      LET files == Files(uploadInfo[i].data)
      IN /\ ReturnedArray(i) =>
              /\ Len(result[i].value.items) = Len(files)
              /\ \A j \in DOMAIN files : result[i].value.items[j] = files[j].link
         /\ (pc[i] = "done" /\ \A j \in DOMAIN reqs[i] : reqs[i][j].state = "fulfilled")
              => ReturnedArray(i)

\* Three files downloaded, the first response to arrive being the last file's.
C1_Witness ==
  /\ op["A"] = "downloadFiles"
  /\ ReturnedArray("A")
  /\ Len(result["A"].value.items) = 3
  /\ arrived["A"] = <<3, 1, 2>>

\* C2: when one of the file GETs fails, downloadFiles fails with an error
\* (its promise is rejected) and yields no array.  Stated for the invocations
\* whose broker request was answered with a server.
C2_FailsWithDownloadError ==
  \A i \in Invocations :
    op[i] = "downloadFiles" /\ BrokerOk(i) /\ FileFailed(i) /\ pc[i] = "done" =>
      result[i].state = "rejected" /\ result[i].value.kind # "array"

\* C3: downloadFiles does not return while one of its GETs is in flight.
\* Stated for the invocations whose broker request was answered with a server.
C3_Barrier ==
  \A i \in Invocations :
    op[i] = "downloadFiles" /\ BrokerOk(i) /\ HasReturned(i) =>
      \A j \in DOMAIN reqs[i] : reqs[i][j].state # "pending"

\* C4: an operation one of whose requests failed, or was answered with a
\* status other than "ok", ends in a rejection.  Stated for the invocations
\* whose arguments are valid.
C4_ErrorsSurface ==
  \A i \in Invocations :
    /\ op[i] \in {"uploadFiles", "getUploadInfo", "removeUpload", "downloadFiles"}
    /\ PlainCall(i)
    /\ pc[i] = "done"
    /\ BrokerFailed(i) \/ WorkerFailed(i) \/ FileFailed(i)
    => result[i].state = "rejected"

\* C5: after a broker request that failed or was answered with a status other
\* than "ok", no request to a worker is issued.  Stated for the invocations
\* whose arguments are valid.
C5_NoWorkerRequestAfterBrokerFailure ==
  \A i \in Invocations : BrokerFailed(i) /\ PlainCall(i) => WorkerRequestsOf(i) = <<>>

\* C6: uploadFiles with an empty list of files issues no request and ends in
\* a rejection.
C6_EmptyFileListRejected ==
  \A i \in Invocations :
    op[i] = "uploadFiles" /\ args[i].files = <<>> =>
      sent[i] = <<>> /\ (pc[i] = "done" => result[i].state = "rejected")

\* What uploadFiles returns, as far as the responses received tell.
ReturnsOfUploadFiles(i) ==
  /\ result[i].state # "rejected"
  /\ pc[i] # "done" => result[i] = Pending
  /\ pc[i] = "done" =>
       result[i] = Fulfilled(IF workerRes[i].outcome = "ok"
                             THEN DataValue(workerRes[i].data) ELSE UndefinedValue)

\* C7: uploadFile is rejected, and issues no request, for a Buffer whose name
\* is missing, empty or an object, and for a file that is neither a Buffer
\* nor a stream; for a Buffer with a name it calls uploadFiles with that one
\* file under that name (and the options given) and returns what it returns.
C7_UploadFile ==
  \A i \in Invocations :
    op[i] = "uploadFile" =>
      LET a == args[i]
          named == a.arg2.kind = "string" /\ a.arg2.str # ""
      IN /\ (a.arg1 = "Buffer" /\ ~named) \/ a.arg1 \notin {"Buffer", "Readable"} =>
              /\ result[i].state = "rejected"
              /\ sent[i] = <<>>
              /\ pc[i] = "done"
         /\ a.arg1 = "Buffer" /\ named =>
              /\ call[i].files = <<[file |-> "Buffer", fn |-> a.arg2.str]>>
              /\ call[i].options = IF a.arg3.kind = "object" THEN a.arg3.opts ELSE NoOptions
              /\ sent[i][1] = GetServerRequest("")
              /\ ReturnsOfUploadFiles(i)

\* A named Buffer uploaded: uploadFile returned the code the service answered.
C7_Witness ==
  /\ op["A"] = "uploadFile"
  /\ args["A"].arg1 = "Buffer"
  /\ args["A"].arg2 = StringArg("a.txt")
  /\ pc["A"] = "done"
  /\ result["A"].value.kind = "data"

\* A present option that is not valid.  Present is what the code takes for
\* present: not undefined, not "" and not 0.  An expire value is an instant in
\* milliseconds when it is above the threshold and in seconds otherwise, and
\* is not valid when that instant is not after the clock.
DescriptionInvalid(o) == o.description.present /\ o.description.len > DescriptionMax
PasswordInvalid(o) ==
  /\ o.password.present
  /\ o.password.chars # <<>>
  /\ ~(/\ Len(o.password.chars) \in PasswordMin..PasswordMax
       /\ \A k \in DOMAIN o.password.chars : o.password.chars[k] \in Alnum)
ExpireNotAfter(e, clock) ==
  /\ e.kind = "num"
  /\ e.q # 0 \/ e.r # 0
  /\ IF Gt(e, Num(ExpireThresholdQ, 0)) THEN Le(e, clock) ELSE Le(e, Normal(Num(0, clock.q)))

Validated(i) == op[i] = "uploadFiles" /\ pc[i] \in {"upload", "done"}

\* C8: uploadFiles with a present option that is not valid sends no upload.
\* Stated for the invocations that have a file to upload and whose broker
\* request was answered with a server.
C8_InvalidOptionNoUpload ==
  \A i \in Invocations :
    /\ Validated(i)
    /\ BrokerOk(i)
    /\ args[i].files # <<>>
    /\ \/ DescriptionInvalid(args[i].options)
       \/ PasswordInvalid(args[i].options)
       \/ ExpireNotAfter(args[i].options.expire, now[i])
    => Count(i, "upload") = 0

C10_PastExpireRejected ==
  \A i \in Invocations :
    /\ Validated(i)
    /\ BrokerOk(i)
    /\ args[i].files # <<>>
    /\ ~DescriptionInvalid(args[i].options)
    /\ ~PasswordInvalid(args[i].options)
    /\ ExpireNotAfter(args[i].options.expire, now[i])
    => /\ \E k \in DOMAIN logged[i] : logged[i][k] = "Invalid value for field expire. "
       /\ Count(i, "upload") = 0

\* The instant one hour after the clock, in epoch milliseconds and in whole
\* epoch seconds.
OneHourAfterMs(clock) == Num(clock.q + 3600, clock.r)
OneHourAfterS(clock) == Normal(Num(0, clock.q + 3600))

ExpireErrorLogged(i) ==
  \E k \in DOMAIN logged[i] : logged[i][k] = "Invalid value for field expire. "

\* C11: an expire option one hour after the clock is accepted whether it is
\* given in epoch seconds or in epoch milliseconds, and in both cases the
\* expire field of the form is that instant in whole epoch seconds.  Stated
\* for the invocations with nothing else amiss: the broker named a server,
\* there is a file to upload, the description and the password are valid.
C11_OneHourAheadInSeconds ==
  \A i \in Invocations :
    /\ Validated(i)
    /\ BrokerOk(i)
    /\ args[i].files # <<>>
    /\ ~DescriptionInvalid(args[i].options)
    /\ ~PasswordInvalid(args[i].options)
    /\ args[i].options.expire \in {OneHourAfterMs(now[i]), OneHourAfterS(now[i])}
    => /\ ~ExpireErrorLogged(i)
       /\ Count(i, "upload") = 1
       /\ \E k \in DOMAIN fd[i] : fd[i][k] = Field("expire", OneHourAfterS(now[i]))

\* The request holds the string s as it is: in its URL or as a parameter.
Carries(r, s) == s \in {r.host, r.c, r.rc, r.link} \/ r.p = Plain(s)

\* C12: no request of getUploadInfo or downloadFiles holds the passphrase as
\* it is.  With a passphrase that is not empty the getUpload request has its
\* SHA-256 digest as parameter p; with an empty or missing one it has no p.
\* No other request has a parameter p.
C12_PassphraseOnlyHashed ==
  \A i \in Invocations :
    op[i] \in {"getUploadInfo", "downloadFiles"} =>
      /\ pc[i] # "getServer" => Count(i, "getUpload") = 1
      /\ \A k \in DOMAIN sent[i] :
           LET r == sent[i][k]
           IN /\ args[i].p # "" => ~Carries(r, args[i].p)
              /\ r.kind = "getUpload" =>
                   r.p = IF args[i].p # "" THEN sha256hash(args[i].p) ELSE NoDigest
              /\ r.kind # "getUpload" => r.p = NoDigest

\* A download with a passphrase: the getUpload request had its digest, and
\* the files were requested.
C12_Witness ==
  /\ op["A"] = "downloadFiles"
  /\ args["A"].p = "secret"
  /\ pc["A"] = "done"
  /\ Count("A", "file") = 2
  /\ \E k \in DOMAIN sent["A"] :
       sent["A"][k].kind = "getUpload" /\ sent["A"][k].p = sha256hash("secret")

DescriptionErrorLogged(i) ==
  \E k \in DOMAIN logged[i] : logged[i][k] = "Invalid value for field description. "
PasswordErrorLogged(i) ==
  \E k \in DOMAIN logged[i] : logged[i][k] = "Invalid value for field password. "

\* ^[a-zA-Z0-9]{6,20}$
PasswordMatches(chars) ==
  /\ Len(chars) \in PasswordMin..PasswordMax
  /\ \A k \in DOMAIN chars : chars[k] \in Alnum

\* C13: uploadFiles rejects a description longer than 1000 with the error
\* for field description, and a password that does not match
\* ^[a-zA-Z0-9]{6,20}$ (too short, too long, empty, or with another
\* character) with the error for field password, sending no upload; a
\* description of at most 1000 and a matching password are in the form of the
\* upload as they were given.  Stated for the invocations whose broker request
\* was answered with a server and that have a file to upload; the password is
\* looked at when the description passed, and the form when there is no
\* expire option to stop it.
C13_DescriptionAndPassword ==
  \A i \in Invocations :
    Validated(i) /\ BrokerOk(i) /\ args[i].files # <<>> =>
      LET o == args[i].options
          descriptionBad == o.description.present /\ o.description.len > DescriptionMax
          passwordBad == o.password.present /\ ~PasswordMatches(o.password.chars)
      IN /\ descriptionBad => DescriptionErrorLogged(i) /\ Count(i, "upload") = 0
         /\ ~descriptionBad /\ passwordBad => PasswordErrorLogged(i) /\ Count(i, "upload") = 0
         /\ ~descriptionBad /\ ~passwordBad /\ o.expire = NoNum =>
              /\ Count(i, "upload") = 1
              /\ o.description.len > 0 =>
                   \E k \in DOMAIN sent[i][2].form :
                     sent[i][2].form[k] =
                       Field("description", [kind |-> "text", len |-> o.description.len])
              /\ o.password.present =>
                   \E k \in DOMAIN sent[i][2].form :
                     sent[i][2].form[k] =
                       Field("password", [kind |-> "chars", chars |-> o.password.chars])

\* The names of the fields appended to the form.
FieldNames(i) == {fd[i][k].name : k \in DOMAIN fd[i]}

\* An expire option that is not valid: not a number, or an instant not after
\* the clock.
ExpireInvalid(e, clock) == e.kind = "nan" \/ ExpireNotAfter(e, clock)

\* C14: the options are checked in the order description, password, expire,
\* and the first that is not valid ends the validation: when several are not
\* valid the error is that of the earliest, no error of a later one is raised
\* and no later field is appended to the form.  Stated for the invocations
\* whose broker request was answered with a server and that have a file to
\* upload.
C14_EarliestInvalidFieldNamed ==
  \A i \in Invocations :
    Validated(i) /\ BrokerOk(i) /\ args[i].files # <<>> =>
      LET o == args[i].options
          descriptionBad == o.description.present /\ o.description.len > DescriptionMax
          passwordBad == o.password.present /\ ~PasswordMatches(o.password.chars)
          expireBad == ExpireInvalid(o.expire, now[i])
      IN /\ descriptionBad /\ (passwordBad \/ expireBad) =>
              /\ DescriptionErrorLogged(i)
              /\ ~PasswordErrorLogged(i) /\ ~ExpireErrorLogged(i)
              /\ FieldNames(i) \cap {"description", "password", "expire"} = {}
         /\ ~descriptionBad /\ passwordBad /\ expireBad =>
              /\ PasswordErrorLogged(i)
              /\ ~ExpireErrorLogged(i)
              /\ FieldNames(i) \cap {"password", "expire"} = {}

\* C15: with invocations in progress at once, every request an invocation
\* sends to a worker goes to the host its own broker request was answered
\* with; the broker request of getUploadInfo, removeUpload and downloadFiles
\* has the invocation's upload code as parameter c, and that of uploadFiles
\* has none.
C15_OwnBrokerHost ==
  \A i \in Invocations :
    \A k \in DOMAIN sent[i] :
      LET r == sent[i][k]
      IN /\ r.kind \in {"upload", "deleteUpload", "getUpload"} =>
              BrokerOk(i) /\ r.host = brokerRes[i].server
         /\ r.kind = "getServer" =>
              r.c = IF op[i] \in {"uploadFile", "uploadFiles"} THEN NoParam ELSE args[i].code

\* C16: when the broker request of uploadFiles fails and an option is not
\* valid, the failure reported is that of the broker request: the operation
\* ends there, and no validation error is raised or reported.  Stated for the
\* invocations that have a file to upload.
C16_ResolutionFailureOnly ==
  \A i \in Invocations :
    /\ op[i] = "uploadFiles"
    /\ BrokerFailed(i)
    /\ args[i].files # <<>>
    /\ \/ DescriptionInvalid(args[i].options)
       \/ PasswordInvalid(args[i].options)
       \/ ExpireInvalid(args[i].options.expire, now[i])
    => /\ pc[i] = "done"
       /\ logged[i] \in {<<"Request failed">>, <<"Fetching server info failed">>}
       /\ ~DescriptionErrorLogged(i) /\ ~PasswordErrorLogged(i) /\ ~ExpireErrorLogged(i)

\* The call j was made, and had returned, before the call i was made.
MadeBefore(j, i) ==
  \E m, n \in DOMAIN CallOrder : CallOrder[m] = j /\ CallOrder[n] = i /\ m < n

Succeeded(i) == result[i].state = "fulfilled" /\ result[i].value.kind = "data"

\* C17: against a service that stores uploads, once uploadFiles has returned
\* a code and a removal code, getUploadInfo of that code returns the list of
\* the files uploaded and removeUpload with that removal code succeeds; and
\* every removeUpload or getUploadInfo of that code made after the removal
\* succeeded ends in an error (a rejection), not in a return.
C17_RoundTrip ==
  \A u, i \in Invocations :
    /\ op[u] = "uploadFiles"
    /\ Succeeded(u)
    /\ MadeBefore(u, i)
    /\ pc[i] = "done"
    /\ call[i].code = result[u].value.data.code
    => LET removedBefore ==
             \E r \in Invocations :
               /\ MadeBefore(r, i)
               /\ op[r] = "removeUpload"
               /\ call[r].code = call[i].code
               /\ Succeeded(r)
       IN /\ op[i] = "getUploadInfo" /\ ~removedBefore =>
               /\ Succeeded(i)
               /\ Len(result[i].value.data.keys) = Len(args[u].files)
          /\ (/\ op[i] = "removeUpload"
              /\ call[i].removalCode = result[u].value.data.removalCode
              /\ ~removedBefore) => Succeeded(i)
          /\ op[i] \in {"getUploadInfo", "removeUpload"} /\ removedBefore =>
               result[i].state = "rejected"

\* The value the expire field is to hold for the input e, and whether that
\* value is after the clock: a value passed through is in milliseconds, as
\* the clock is, and a value divided by 1000 is in seconds.
ExpireResolved(e) == IF Gt(e, ExpireThreshold) THEN e ELSE RoundDiv1000(e)
ResolvedIsFuture(e, clock) ==
  IF Gt(e, ExpireThreshold) THEN Gt(ExpireResolved(e), clock)
  ELSE Gt(ExpireResolved(e), Normal(Num(0, clock.q)))

\* C18: the expire field holds the input itself when the input is above
\* 10,000,000,000 and the input divided by 1000, rounded to the nearest
\* integer, otherwise; and the check that the expiry is in the future is made
\* on that value: the value is appended and sent when it is after the clock,
\* and rejected with the error for field expire when it is not.  Stated for
\* the invocations that reach the check of expire at the present-day clock:
\* the broker named a server, there is a file to upload, the description and
\* the password passed.
C18_ExpireResolved ==
  \A i \in Invocations :
    /\ Validated(i)
    /\ BrokerOk(i)
    /\ args[i].files # <<>>
    /\ ~DescriptionErrorLogged(i) /\ ~PasswordErrorLogged(i)
    /\ args[i].options.expire.kind = "num"
    /\ args[i].options.expire # Num(0, 0)
    /\ now[i] = Num(1793836800, 0)
    => LET e == args[i].options.expire
       IN IF ResolvedIsFuture(e, now[i])
          THEN /\ Count(i, "upload") = 1
               /\ \E k \in DOMAIN sent[i][2].form :
                    sent[i][2].form[k] = Field("expire", ExpireResolved(e))
          ELSE /\ Count(i, "upload") = 0
               /\ ExpireErrorLogged(i)

\* uploadFile's file argument is not valid: a Buffer without a name, or
\* neither a Buffer nor a stream.
InvalidFileArgument(i) ==
  /\ op[i] = "uploadFile"
  /\ \/ args[i].arg1 \notin {"Buffer", "Readable"}
     \/ args[i].arg1 = "Buffer" /\ ~(args[i].arg2.kind = "string" /\ args[i].arg2.str # "")

\* A request to a worker or to a file link failed, or an option was rejected.
FailedInside(i) ==
  \/ WorkerFailed(i)
  \/ FileFailed(i)
  \/ DescriptionErrorLogged(i) \/ PasswordErrorLogged(i) \/ ExpireErrorLogged(i)

FileRequestsOf(i) == SelectSeq(sent[i], LAMBDA r : r.kind = "file")

\* C20: downloadFiles issues its GETs of files only once its fetch of the
\* upload's information has returned a manifest.  Before that none is issued;
\* when the fetch fails (the broker request fails, or the getUpload request
\* fails or is answered with a status other than "ok") none is ever issued
\* and downloadFiles ends without returning an array; when it returns the
\* information, one GET per entry of the manifest is issued, in the order of
\* the manifest, and all are issued by the time the first response is awaited.
C20_FileRequestsAfterManifest ==
  \A i \in Invocations :
    op[i] = "downloadFiles" =>
      /\ pc[i] \in {"getServer", "getUpload"} => FileRequestsOf(i) = <<>>
      /\ BrokerFailed(i) \/ WorkerFailed(i) =>
           /\ FileRequestsOf(i) = <<>>
           /\ ~ReturnedArray(i)
           /\ pc[i] = "done" => result[i] = Fulfilled(UndefinedValue)
      /\ WorkerFailed(i) => pc[i] = "done"
      /\ uploadInfo[i].kind = "data" /\ BrokerOk(i) =>
           LET keys == uploadInfo[i].data.keys
           IN /\ pc[i] \in {"all", "done"}
              /\ FileRequestsOf(i) =
                   [j \in 1..Len(keys) |->
                      FileRequest(FileEntry(keys[j]).link, args[i].responseType)]
              /\ Len(reqs[i]) = Len(keys)
====
